---- MODULE Spec2Model ----
(***************************************************************************)
(* Model of the ERCP example firmware: the custom command router           *)
(* (src/src/lib.rs) and the RTIC tasks that drive it (src/src/main.rs).    *)
(***************************************************************************)
EXTENDS Integers, Sequences, FiniteSets, TLC

(* ---- program constants (src/src/lib.rs:147-161) ---- *)
TX_MAX_LEN == 255

LED_ON == 32
LED_OFF == 33
COUNTER_GET == 48
COUNTER_GET_REPLY == 49
COUNTER_SET == 50
COUNTER_INC == 51
COUNTER_DEC == 52

OUT_OF_BOUNDS == 255

(* ---- constants of the ercp_basic crate, imported at lib.rs:8 ---- *)
PING == 0
ACK == 1
NACK == 2
UNKNOWN_COMMAND == 3
INVALID_ARGUMENTS == 4

(* An identifier that is in nobody's table (spec.md section 8 uses 0x99). *)
UNKNOWN_CODE == 153

(* u8 *)
U8_MAX == 255
Byte == 0..U8_MAX

(* ---- bounds of the model ---- *)
(* longest payload of a dispatched command *)
MaxLen == 2
(* number of route() calls in a run *)
MaxCalls == 4
(* number of route() calls in a run of counter-set commands *)
MaxSets == 2

(* Bytes the payloads are made of: both ends of the u8 range, their        *)
(* neighbours, and the 5 of the round trip of spec.md section 8.           *)
FillBytes == {0, U8_MAX}
SetBytes == {0, 1, 5, U8_MAX - 1, U8_MAX}

RECURSIVE SeqsOfLen(_, _)
SeqsOfLen(S, n) ==
    IF n = 0 THEN {<<>>}
    ELSE {Append(s, b) : s \in SeqsOfLen(S, n - 1), b \in S}

(* Payloads of the counter-set commands: the empty one, the one-byte ones  *)
(* over SetBytes, and the longer ones over FillBytes.                      *)
Values ==
    {<<>>} \cup {<<b>> : b \in SetBytes}
           \cup UNION {SeqsOfLen(FillBytes, n) : n \in 2..MaxLen}

(* Payloads handed to the handlers that take no argument. *)
ShortValues ==
    {<<>>} \cup UNION {SeqsOfLen(FillBytes, n) : n \in 1..MaxLen}

Codes ==
    {PING, LED_ON, LED_OFF, COUNTER_GET, COUNTER_GET_REPLY, COUNTER_SET,
     COUNTER_INC, COUNTER_DEC, UNKNOWN_CODE}

(* Command::new(code, value); length() is Len(value). *)
Cmd(code, value) == [code |-> code, value |-> value]

Commands ==
    {Cmd(COUNTER_SET, v) : v \in Values}
        \cup {Cmd(c, v) : c \in Codes \ {COUNTER_SET}, v \in ShortValues}

(* Option<Command> *)
None == <<>>
Some(c) == <<c>>

(* ack!() and nack!(reason) *)
Ack == Cmd(ACK, <<>>)
Nack(reason) == Cmd(NACK, <<reason>>)

VARIABLES
    led,        \* DriveableResources.led: "low" or "high"
    counter,    \* DriveableResources.counter: u8
    buffer,     \* CustomRouter.buffer: [u8; TX_MAX_LEN]
    command,    \* the command handed to the last route() call
    reply,      \* what the last route() call returned
    calls,      \* number of route() calls so far
    repeated,   \* history: the last two calls carried the same identifier
    script,     \* the host's position in the round trip of spec.md section 8
    rx,         \* ErcpBasic: the receiver, "ready", "receiving" or "complete"
    frame,      \* ErcpBasic: the command of the complete frame, if any
    rxne,       \* USART1: a received byte waits, the interrupt is pending
    spawned,    \* RTIC: an ercp_process run is queued (capacity 1)
    pcU,        \* where the usart1 task is
    pcP,        \* where the ercp_process task is
    dropped     \* history: the failure the last usart1 step discarded

router_vars == <<led, counter, buffer, command, reply, calls, repeated>>
pipeline_vars == <<rx, frame, rxne, spawned, pcU, pcP, dropped>>
vars == <<router_vars, script, pipeline_vars>>

(* The fields of DriveableResources and of CustomRouter. *)
TypeOK ==
    /\ led \in {"low", "high"}
    /\ counter \in Byte
    /\ buffer \in [1..TX_MAX_LEN -> Byte]

(* DriveableResources as a value *)
Cx(l, c) == [led |-> l, counter |-> c]

(* The result of a handler: the reply, the context and the scratch buffer  *)
(* it leaves behind.                                                       *)
Result(r, cx, buf) == [reply |-> r, cx |-> cx, buffer |-> buf]

(* Variant: the line is toggled instead of set. *)
led_toggle(cx, buf) ==
    Result(Some(Ack),
           [cx EXCEPT !.led = IF cx.led = "high" THEN "low" ELSE "high"], buf)

led_on(cx, buf) == Result(Some(Ack), [cx EXCEPT !.led = "high"], buf)

(* Variant: the line is deasserted and nothing is replied. *)
led_off_silent(cx, buf) == Result(None, [cx EXCEPT !.led = "low"], buf)

led_off(cx, buf) == Result(Some(Ack), [cx EXCEPT !.led = "low"], buf)

(* Variant: the reply is built before the counter is written to buffer[0]. *)
counter_get_stale(cx, buf) ==
    Result(Some(Cmd(COUNTER_GET_REPLY, SubSeq(buf, 1, 1))), cx,
           [buf EXCEPT ![1] = cx.counter])

(* Variant: a non-zero buffer[0] is taken for the value to reply. *)
counter_get_cached(cx, buf) ==
    LET buf2 == IF buf[1] # 0 THEN buf ELSE [buf EXCEPT ![1] = cx.counter]
    IN  Result(Some(Cmd(COUNTER_GET_REPLY, SubSeq(buf2, 1, 1))), cx, buf2)

counter_get(cx, buf) ==
    LET buf2 == [buf EXCEPT ![1] = cx.counter]
    IN  Result(Some(Cmd(COUNTER_GET_REPLY, SubSeq(buf2, 1, 1))), cx, buf2)

(* Variant: a payload longer than one byte is accepted. *)
counter_set_lenient(cmd, cx, buf) ==
    IF Len(cmd.value) >= 1
    THEN Result(Some(Ack), [cx EXCEPT !.counter = cmd.value[1]], buf)
    ELSE Result(Some(Nack(INVALID_ARGUMENTS)), cx, buf)

(* Variant: the first byte is stored before the length is checked. *)
counter_set_early(cmd, cx, buf) ==
    LET cx2 == IF Len(cmd.value) >= 1
               THEN [cx EXCEPT !.counter = cmd.value[1]] ELSE cx
    IN  IF Len(cmd.value) = 1
        THEN Result(Some(Ack), cx2, buf)
        ELSE Result(Some(Nack(INVALID_ARGUMENTS)), cx2, buf)

counter_set(cmd, cx, buf) ==
    IF Len(cmd.value) = 1
    THEN Result(Some(Ack), [cx EXCEPT !.counter = cmd.value[1]], buf)
    ELSE Result(Some(Nack(INVALID_ARGUMENTS)), cx, buf)

(* Variants: u8::wrapping_add, and an overflow check that is one too late. *)
wrapping_add(a, b) == Some((a + b) % (U8_MAX + 1))

checked_add_late(a, b) == IF a + b > U8_MAX + 1 THEN None ELSE Some(a + b)

(* u8::checked_add: None on overflow *)
checked_add(a, b) == IF a + b > U8_MAX THEN None ELSE Some(a + b)

(* Variant: u8::wrapping_sub. *)
wrapping_sub(a, b) == Some((a - b) % (U8_MAX + 1))

(* u8::checked_sub: None on underflow *)
checked_sub(a, b) == IF a - b < 0 THEN None ELSE Some(a - b)

(* Variant: an increment at 255 is acknowledged (saturating). *)
counter_inc_clamp(cx, buf) ==
    LET r == checked_add(cx.counter, 1)
    IN  IF r # None
        THEN Result(Some(Ack), [cx EXCEPT !.counter = r[1]], buf)
        ELSE Result(Some(Ack), cx, buf)

counter_inc(cx, buf) ==
    LET r == checked_add(cx.counter, 1)
    IN  IF r # None
        THEN Result(Some(Ack), [cx EXCEPT !.counter = r[1]], buf)
        ELSE Result(Some(Nack(OUT_OF_BOUNDS)), cx, buf)

(* Variant: the decrement also deasserts the line. *)
counter_dec_led(cx, buf) ==
    LET r == checked_sub(cx.counter, 1)
    IN  IF r # None
        THEN Result(Some(Ack), [cx EXCEPT !.counter = r[1], !.led = "low"], buf)
        ELSE Result(Some(Nack(OUT_OF_BOUNDS)), cx, buf)

counter_dec(cx, buf) ==
    LET r == checked_sub(cx.counter, 1)
    IN  IF r # None
        THEN Result(Some(Ack), [cx EXCEPT !.counter = r[1]], buf)
        ELSE Result(Some(Nack(OUT_OF_BOUNDS)), cx, buf)

(* Router::default_routes of the ercp_basic crate: it is handed the        *)
(* command only, never the context.                                        *)
default_routes(cmd) ==
    IF cmd.code = PING THEN Some(Ack) ELSE Some(Nack(UNKNOWN_COMMAND))

(* Variant: the commands that take no argument reject a payload. *)
route_strict(cmd, cx, buf) ==
    CASE cmd.code \in {LED_ON, LED_OFF, COUNTER_GET, COUNTER_INC, COUNTER_DEC}
            /\ Len(cmd.value) # 0 ->
              Result(Some(Nack(INVALID_ARGUMENTS)), cx, buf)
      [] cmd.code = LED_ON /\ Len(cmd.value) = 0 -> led_on(cx, buf)
      [] cmd.code = LED_OFF /\ Len(cmd.value) = 0 -> led_off(cx, buf)
      [] cmd.code = COUNTER_GET /\ Len(cmd.value) = 0 -> counter_get(cx, buf)
      [] cmd.code = COUNTER_SET -> counter_set(cmd, cx, buf)
      [] cmd.code = COUNTER_INC /\ Len(cmd.value) = 0 -> counter_inc(cx, buf)
      [] cmd.code = COUNTER_DEC /\ Len(cmd.value) = 0 -> counter_dec(cx, buf)
      [] OTHER -> Result(default_routes(cmd), cx, buf)

(* Variant: the counter-get-reply identifier is routed to counter_set. *)
route_reply_code(cmd, cx, buf) ==
    CASE cmd.code = LED_ON -> led_on(cx, buf)
      [] cmd.code = LED_OFF -> led_off(cx, buf)
      [] cmd.code = COUNTER_GET -> counter_get(cx, buf)
      [] cmd.code = COUNTER_GET_REPLY -> counter_set(cmd, cx, buf)
      [] cmd.code = COUNTER_SET -> counter_set(cmd, cx, buf)
      [] cmd.code = COUNTER_INC -> counter_inc(cx, buf)
      [] cmd.code = COUNTER_DEC -> counter_dec(cx, buf)
      [] OTHER -> Result(default_routes(cmd), cx, buf)

route(cmd, cx, buf) ==
    CASE cmd.code = LED_ON -> led_on(cx, buf)
      [] cmd.code = LED_OFF -> led_off(cx, buf)
      [] cmd.code = COUNTER_GET -> counter_get(cx, buf)
      [] cmd.code = COUNTER_SET -> counter_set(cmd, cx, buf)
      [] cmd.code = COUNTER_INC -> counter_inc(cx, buf)
      [] cmd.code = COUNTER_DEC -> counter_dec(cx, buf)
      [] OTHER -> Result(default_routes(cmd), cx, buf)

(* The host has not started the round trip. *)
Idle == [phase |-> "idle", incs |-> 0]

Init ==
    /\ led \in {"low", "high"}
    /\ counter = 0
    /\ buffer = [i \in 1..TX_MAX_LEN |-> 0]
    /\ command = None
    /\ reply = None
    /\ calls = 0
    /\ repeated = FALSE
    /\ script = Idle
    /\ rx = "ready"
    /\ frame = None
    /\ rxne = FALSE
    /\ spawned = FALSE
    /\ pcU = "idle"
    /\ pcP = "idle"
    /\ dropped = "none"

(* One call of route() on the resources. *)
Call(cmd) ==
    LET r == route(cmd, Cx(led, counter), buffer)
    IN  /\ calls' = calls + 1
        /\ command' = Some(cmd)
        /\ repeated' = (command # None /\ command[1].code = cmd.code)
        /\ reply' = r.reply
        /\ led' = r.cx.led
        /\ counter' = r.cx.counter
        /\ buffer' = r.buffer

(* The host sends any command. *)
Dispatch(cmd) ==
    /\ script = Idle
    /\ calls < MaxCalls
    /\ Call(cmd)
    /\ UNCHANGED <<script, pipeline_vars>>

Next == \E cmd \in Commands : Dispatch(cmd)

Spec == Init /\ [][Next]_vars

(* ---- counter-set with every byte ---- *)

(* Every payload of at most MaxLen bytes whose first byte is any byte. *)
SetValues ==
    {<<>>} \cup {<<b>> : b \in Byte}
           \cup UNION {SeqsOfLen(FillBytes, n) : n \in 2..MaxLen}

(* The host sends a counter-set command. *)
DispatchSet(v) ==
    /\ script = Idle
    /\ calls < MaxSets
    /\ Call(Cmd(COUNTER_SET, v))
    /\ UNCHANGED <<script, pipeline_vars>>

SetNext == \E v \in SetValues : DispatchSet(v)

SetSpec == Init /\ [][SetNext]_vars

(* ---- the round trip of spec.md section 8, sent by the host ---- *)

(* The host sends counter-set(5), counter-get, up to 252 counter-increments *)
(* (the 251 that spec.md expects to be acknowledged and the one it expects *)
(* rejected) and, after a rejected increment, a counter-decrement.         *)

(* counter-set(5), from any state the host's earlier commands left. *)
RoundTripSet ==
    /\ script = Idle
    /\ Call(Cmd(COUNTER_SET, <<5>>))
    /\ script' = [phase |-> "set", incs |-> 0]
    /\ UNCHANGED pipeline_vars

RoundTripGet ==
    /\ script.phase = "set"
    /\ Call(Cmd(COUNTER_GET, <<>>))
    /\ script' = [phase |-> "get", incs |-> 0]
    /\ UNCHANGED pipeline_vars

RoundTripInc ==
    /\ script.phase \in {"get", "inc"}
    /\ script.incs < 252
    /\ Call(Cmd(COUNTER_INC, <<>>))
    /\ script' = [phase |-> "inc", incs |-> script.incs + 1]
    /\ UNCHANGED pipeline_vars

(* The counter-decrement that follows the first rejected increment. *)
RoundTripDec ==
    /\ script.phase = "inc"
    /\ reply = Some(Nack(OUT_OF_BOUNDS))
    /\ Call(Cmd(COUNTER_DEC, <<>>))
    /\ script' = [phase |-> "dec", incs |-> script.incs]
    /\ UNCHANGED pipeline_vars

RoundTripNext ==
    \/ \E cmd \in Commands : Dispatch(cmd)
    \/ RoundTripSet
    \/ RoundTripGet
    \/ RoundTripInc
    \/ RoundTripDec

RoundTripSpec == Init /\ [][RoundTripNext]_vars

(* ---- the RTIC tasks of main.rs ---- *)

(* Both tasks are declared without a priority: RTIC gives them priority 1. *)
Usart1Priority == 1
ErcpProcessPriority == 1

(* What feeding one byte to the receiver can do to it. *)
FeedOutcomes == {"more", "complete", "error"}

(* The commands of the frames the host sends. *)
FrameCommands ==
    {Cmd(c, <<>>) : c \in Codes} \cup {Cmd(COUNTER_SET, <<b>>) : b \in FillBytes}

(* A byte reaches the UART: RXNE is set and the USART1 interrupt pends. *)
ByteArrives ==
    /\ rxne' = TRUE
    /\ UNCHANGED <<router_vars, script, dropped, rx, frame, spawned, pcU, pcP>>

(* Variant: usart1 starts whatever else is running. *)
Usart1EnterPreempting ==
    /\ rxne
    /\ pcU = "idle"
    /\ pcU' = "handle_data"
    /\ UNCHANGED <<router_vars, script, dropped, rx, frame, rxne, spawned, pcP>>

(* usart1 starts: its interrupt is pending, and no task of the same or a   *)
(* higher priority is running.                                             *)
Usart1Enter ==
    /\ rxne
    /\ pcU = "idle"
    /\ pcP = "idle" \/ Usart1Priority > ErcpProcessPriority
    /\ pcU' = "handle_data"
    /\ UNCHANGED <<router_vars, script, dropped, rx, frame, rxne, spawned, pcP>>

(* ErcpBasic::handle_data on one byte: a byte continues the frame,          *)
(* completes it (cmd is the command it holds) or is rejected, and the      *)
(* receiver starts over. A complete frame is kept until it is processed.   *)
feed_byte(r, f, outcome, cmd) ==
    IF r = "complete" THEN [rx |-> r, frame |-> f]
    ELSE CASE outcome = "more" -> [rx |-> "receiving", frame |-> None]
           [] outcome = "complete" -> [rx |-> "complete", frame |-> Some(cmd)]
           [] outcome = "error" -> [rx |-> "ready", frame |-> None]

(* ErcpBasic::complete_frame_received *)
complete_frame_received(r) == r = "complete"

(* ercp.handle_data(): the byte is read from the UART and fed. *)
Usart1HandleData(outcome, cmd) ==
    /\ pcU = "handle_data"
    /\ outcome = "complete" => calls < MaxCalls
    /\ rxne' = FALSE
    /\ pcU' = "poll"
    /\ rx' = feed_byte(rx, frame, outcome, cmd).rx
    /\ frame' = feed_byte(rx, frame, outcome, cmd).frame
    /\ dropped' = IF outcome = "error" THEN "feed" ELSE "none"
    /\ UNCHANGED <<router_vars, script, spawned, pcP>>

(* Variant: the run is spawned whether or not a frame is complete. *)
Usart1PollAlways ==
    /\ pcU = "poll"
    /\ pcU' = "spawn"
    /\ UNCHANGED <<router_vars, script, dropped, rx, frame, rxne, spawned, pcP>>

(* Variant: the condition is negated. *)
Usart1PollInverted ==
    /\ pcU = "poll"
    /\ pcU' = IF complete_frame_received(rx) THEN "idle" ELSE "spawn"
    /\ UNCHANGED <<router_vars, script, dropped, rx, frame, rxne, spawned, pcP>>

(* if ercp.complete_frame_received() { ... } *)
Usart1Poll ==
    /\ pcU = "poll"
    /\ pcU' = IF complete_frame_received(rx) THEN "spawn" ELSE "idle"
    /\ UNCHANGED <<router_vars, script, dropped, rx, frame, rxne, spawned, pcP>>

(* Variant: the frame is routed in the interrupt handler itself. *)
Usart1SpawnInline ==
    /\ pcU = "spawn"
    /\ Call(frame[1])
    /\ rx' = "ready"
    /\ frame' = None
    /\ pcU' = "idle"
    /\ UNCHANGED <<script, dropped, rxne, spawned, pcP>>

(* Variant: the request is not recorded. *)
Usart1SpawnLost ==
    /\ pcU = "spawn"
    /\ pcU' = "idle"
    /\ UNCHANGED <<router_vars, script, dropped, rx, frame, rxne, spawned, pcP>>

(* Variant: unwrap() in place of ok(), the handler panics on a full queue. *)
Usart1SpawnUnwrap ==
    /\ pcU = "spawn"
    /\ spawned' = TRUE
    /\ pcU' = IF spawned THEN "halted" ELSE "idle"
    /\ dropped' = IF spawned THEN "spawn" ELSE dropped
    /\ UNCHANGED <<router_vars, script, rx, frame, rxne, pcP>>

(* cx.spawn.ercp_process().ok(): the queue holds one run; the error of a   *)
(* spawn on a full queue is dropped.                                       *)
Usart1Spawn ==
    /\ pcU = "spawn"
    /\ spawned' = TRUE
    /\ pcU' = "idle"
    /\ dropped' = IF spawned THEN "spawn" ELSE dropped
    /\ UNCHANGED <<router_vars, script, rx, frame, rxne, pcP>>

(* ercp_process starts: a run is queued, and no task of the same or a      *)
(* higher priority is running.                                             *)
ErcpProcessEnter ==
    /\ spawned
    /\ pcP = "idle"
    /\ pcU = "idle" \/ ErcpProcessPriority > Usart1Priority
    /\ spawned' = FALSE
    /\ pcP' = "process"
    /\ UNCHANGED <<router_vars, script, dropped, rx, frame, rxne, pcU>>

(* ercp.process(driveable_resources): the complete frame's command is      *)
(* routed. usart1 cannot run meanwhile unless its priority is higher.      *)
ErcpProcessRoute ==
    /\ pcP = "process"
    /\ pcU = "idle"
    /\ IF complete_frame_received(rx)
       THEN Call(frame[1])
       ELSE UNCHANGED router_vars
    /\ pcP' = "reset"
    /\ UNCHANGED <<script, dropped, rx, frame, rxne, spawned, pcU>>

(* The end of process(): the frame is discarded; the task returns. *)
ErcpProcessReturn ==
    /\ pcP = "reset"
    /\ pcU = "idle"
    /\ rx' = "ready"
    /\ frame' = None
    /\ pcP' = "idle"
    /\ UNCHANGED <<router_vars, script, dropped, rxne, spawned, pcU>>

PipelineNext ==
    \/ ByteArrives
    \/ Usart1Enter
    \/ \E outcome \in FeedOutcomes, cmd \in FrameCommands :
          Usart1HandleData(outcome, cmd)
    \/ Usart1Poll
    \/ Usart1Spawn
    \/ ErcpProcessEnter
    \/ ErcpProcessRoute
    \/ ErcpProcessReturn

PipelineSpec == Init /\ [][PipelineNext]_vars

(* The tasks under the scheduling of the core: a handler that has started  *)
(* runs on to its end, a pending USART1 interrupt is taken once nothing    *)
(* runs, and a queued ercp_process run, pended on TIM2, is taken when the  *)
(* running handler returns, however often usart1 is entered in between.    *)
FairPipelineSpec ==
    /\ PipelineSpec
    /\ WF_vars(Usart1Enter)
    /\ WF_vars(\E outcome \in FeedOutcomes, cmd \in FrameCommands :
                  Usart1HandleData(outcome, cmd))
    /\ WF_vars(Usart1Poll)
    /\ WF_vars(Usart1Spawn)
    /\ SF_vars(ErcpProcessEnter)
    /\ WF_vars(ErcpProcessRoute)
    /\ WF_vars(ErcpProcessReturn)

(* ======================= properties of the router ====================== *)

(* A step in which route() was called. *)
Routed == calls' = calls + 1

(* A step in which route() was called with the identifier code. *)
RoutedCode(code) == Routed /\ command'[1].code = code

(* What one step may do to the counter. *)
C1_CounterStep ==
    /\ counter' \in Byte
    /\ counter' # counter =>
        \/ RoutedCode(COUNTER_INC) /\ counter' = counter + 1
        \/ RoutedCode(COUNTER_DEC) /\ counter' = counter - 1
        \/ RoutedCode(COUNTER_SET) /\ command'[1].value = <<counter'>>
    /\ RoutedCode(COUNTER_INC) /\ counter = U8_MAX =>
        counter' = U8_MAX /\ reply' # Some(Ack)
    /\ RoutedCode(COUNTER_DEC) /\ counter = 0 =>
        counter' = 0 /\ reply' # Some(Ack)

(* C1: the counter starts at 0 and stays within 0..255; a call changes it  *)
(* only by exactly +1 (increment), exactly -1 (decrement) or to the one    *)
(* byte of a counter-set, so no call wraps it around, and an increment at  *)
(* 255 or a decrement at 0 is rejected rather than clamped silently.       *)
C1_CounterInRange ==
    /\ (calls = 0 => counter = 0)
    /\ [](counter \in Byte)
    /\ [][C1_CounterStep]_vars

C1_Witness ==
    /\ command = Some(Cmd(COUNTER_INC, <<>>))
    /\ counter = U8_MAX
    /\ reply = Some(Nack(OUT_OF_BOUNDS))

(* C2: increment-counter below 255 replies an empty ACK and adds exactly   *)
(* one; at 255 it replies NACK(0xFF) and the counter stays 255.            *)
C2_Increment ==
    [][RoutedCode(COUNTER_INC) =>
        IF counter < U8_MAX
        THEN reply' = Some(Cmd(ACK, <<>>)) /\ counter' = counter + 1
        ELSE reply' = Some(Cmd(NACK, <<OUT_OF_BOUNDS>>)) /\ counter' = U8_MAX
      ]_vars

C2_Witness ==
    /\ command = Some(Cmd(COUNTER_INC, <<>>))
    /\ repeated
    /\ counter = U8_MAX
    /\ reply = Some(Nack(OUT_OF_BOUNDS))

(* C3: decrement-counter above 0 replies an empty ACK and subtracts        *)
(* exactly one; at 0 it replies NACK(0xFF) and the counter stays 0.        *)
C3_Decrement ==
    [][RoutedCode(COUNTER_DEC) =>
        IF counter > 0
        THEN reply' = Some(Cmd(ACK, <<>>)) /\ counter' = counter - 1
        ELSE reply' = Some(Cmd(NACK, <<OUT_OF_BOUNDS>>)) /\ counter' = 0
      ]_vars

C3_Witness ==
    /\ command = Some(Cmd(COUNTER_DEC, <<>>))
    /\ calls > 1
    /\ counter = 0
    /\ reply = Some(Nack(OUT_OF_BOUNDS))

(* C4: counter-set with a payload of length 1 replies an empty ACK and     *)
(* makes the counter that byte; with any other length it replies           *)
(* NACK(invalid-arguments) and leaves the counter unchanged.               *)
C4_Set ==
    [][RoutedCode(COUNTER_SET) =>
        IF Len(command'[1].value) = 1
        THEN /\ reply' = Some(Cmd(ACK, <<>>))
             /\ counter' = command'[1].value[1]
        ELSE /\ reply' = Some(Cmd(NACK, <<INVALID_ARGUMENTS>>))
             /\ counter' = counter
      ]_vars

C4_Witness ==
    /\ command = Some(Cmd(COUNTER_SET, <<U8_MAX, 0>>))
    /\ repeated
    /\ counter = 128
    /\ reply = Some(Nack(INVALID_ARGUMENTS))

(* C5, as claimed: get-counter replies an ACK whose one-byte payload is    *)
(* the counter, and leaves the counter and the output line unchanged.      *)
C5_GetRepliesAck ==
    [][RoutedCode(COUNTER_GET) =>
        /\ reply' = Some(Cmd(ACK, <<counter>>))
        /\ counter' = counter
        /\ led' = led
      ]_vars

(* C5, amended: get-counter replies a counter-get-reply command (0x31),    *)
(* which is not the ACK command, whose one-byte payload is the counter,    *)
(* and leaves the counter and the output line unchanged.                   *)
C5_GetRepliesCounter ==
    [][RoutedCode(COUNTER_GET) =>
        /\ reply' = Some(Cmd(COUNTER_GET_REPLY, <<counter>>))
        /\ COUNTER_GET_REPLY # ACK
        /\ counter' = counter
        /\ led' = led
      ]_vars

C5_Witness ==
    /\ command = Some(Cmd(COUNTER_GET, <<>>))
    /\ counter = U8_MAX
    /\ buffer[1] = U8_MAX
    /\ reply = Some(Cmd(COUNTER_GET_REPLY, <<U8_MAX>>))

(* C6, as claimed: counter-set(5) replies ACK; counter-get then replies    *)
(* ACK with payload [5]; each of the next 251 increments replies ACK and   *)
(* the counter is 255 after them; the next increment replies NACK(0xFF);   *)
(* the decrement that follows replies ACK and leaves 254.                  *)
C6_RoundTripAsClaimed ==
    /\ script.phase = "set" => reply = Some(Cmd(ACK, <<>>))
    /\ script.phase = "get" => reply = Some(Cmd(ACK, <<5>>))
    /\ script.phase = "inc" /\ script.incs <= 251 =>
          reply = Some(Cmd(ACK, <<>>))
    /\ script.phase = "inc" /\ script.incs = 251 => counter = U8_MAX
    /\ script.phase = "inc" /\ script.incs = 252 =>
          reply = Some(Cmd(NACK, <<OUT_OF_BOUNDS>>))
    /\ script.phase = "dec" /\ script.incs = 252 =>
          reply = Some(Cmd(ACK, <<>>)) /\ counter = U8_MAX - 1

(* C6, amended: counter-set(5) replies ACK; counter-get then replies a     *)
(* counter-get-reply command (0x31) with payload [5]; each of the next 250 *)
(* increments replies ACK and the counter is 255 after them; the next      *)
(* increment, the 251st, replies NACK(0xFF) and leaves 255; the decrement  *)
(* that follows replies ACK and leaves 254.                                *)
C6_RoundTrip ==
    /\ script.phase = "set" =>
          reply = Some(Cmd(ACK, <<>>)) /\ counter = 5
    /\ script.phase = "get" =>
          /\ reply = Some(Cmd(COUNTER_GET_REPLY, <<5>>))
          /\ counter = 5
    /\ script.phase = "inc" /\ script.incs <= 250 =>
          /\ reply = Some(Cmd(ACK, <<>>))
          /\ counter = 5 + script.incs
    /\ script.phase = "inc" /\ script.incs = 250 => counter = U8_MAX
    /\ script.phase = "inc" /\ script.incs > 250 =>
          /\ reply = Some(Cmd(NACK, <<OUT_OF_BOUNDS>>))
          /\ counter = U8_MAX
    /\ script.phase = "dec" =>
          /\ reply = Some(Cmd(ACK, <<>>))
          /\ counter = U8_MAX - 1

(* The increments of C6 as claimed, alone: 251 acknowledged increments     *)
(* after counter-set(5). It fails at the 251st, since 5 + 251 = 256.        *)
C6_IncrementsAsClaimed ==
    script.phase = "inc" /\ script.incs <= 251 => reply = Some(Cmd(ACK, <<>>))

C6_Witness ==
    /\ script = [phase |-> "dec", incs |-> 251]
    /\ command = Some(Cmd(COUNTER_DEC, <<>>))
    /\ counter = U8_MAX - 1

(* The identifiers of the device's own table. *)
DeviceCodes ==
    {LED_ON, LED_OFF, COUNTER_GET, COUNTER_SET, COUNTER_INC, COUNTER_DEC}

(* C7: a command whose identifier is not in the device's table gets the    *)
(* reply of the default routes, which is NACK(unknown-command) when the    *)
(* identifier is no built-in either, and the output line and the counter   *)
(* are unchanged.                                                          *)
C7_UnknownDelegated ==
    [][Routed /\ command'[1].code \notin DeviceCodes =>
        /\ reply' = default_routes(command'[1])
        /\ command'[1].code # PING =>
              reply' = Some(Cmd(NACK, <<UNKNOWN_COMMAND>>))
        /\ led' = led
        /\ counter' = counter
      ]_vars

C7_Witness ==
    /\ command = Some(Cmd(UNKNOWN_CODE, <<>>))
    /\ reply = Some(Nack(UNKNOWN_COMMAND))
    /\ counter = 5
    /\ led = "high"

(* The commands that take no argument. *)
PayloadLess == {LED_ON, LED_OFF, COUNTER_GET, COUNTER_INC, COUNTER_DEC}

(* C8: a payload-less command with a non-empty payload gets the reply and  *)
(* leaves the state that the same command with an empty payload gets and   *)
(* leaves from the same state.                                             *)
C8_PayloadIgnored ==
    [][Routed /\ command'[1].code \in PayloadLess =>
        LET r == route(Cmd(command'[1].code, <<>>), Cx(led, counter), buffer)
        IN  /\ reply' = r.reply
            /\ led' = r.cx.led
            /\ counter' = r.cx.counter
            /\ buffer' = r.buffer
      ]_vars

C8_Witness ==
    /\ command = Some(Cmd(COUNTER_DEC, <<0, U8_MAX>>))
    /\ reply = Some(Ack)
    /\ counter = U8_MAX - 1

(* C9: output-assert twice in a row, and output-deassert twice in a row,   *)
(* reply an empty ACK both times, and the second leaves the line as the    *)
(* first left it: high for 0x20, low for 0x21.                             *)
C9_OutputIdempotent ==
    [][\A code \in {LED_ON, LED_OFF} :
        RoutedCode(code) /\ command # None /\ command[1].code = code =>
            /\ reply = Some(Cmd(ACK, <<>>))
            /\ reply' = Some(Cmd(ACK, <<>>))
            /\ led' = led
            /\ led' = (IF code = LED_ON THEN "high" ELSE "low")
      ]_vars

C9_Witness ==
    /\ repeated
    /\ command = Some(Cmd(LED_ON, <<>>))
    /\ reply = Some(Ack)
    /\ led = "high"

(* C11: a call that replies NACK leaves the output line and the counter as *)
(* they were, and a device handler that replies ACK has applied its whole  *)
(* effect: the line is set, or the counter is the byte given, one more or  *)
(* one less.                                                               *)
C11_NoPartialMutation ==
    [][Routed =>
        /\ reply' # None /\ reply'[1].code = NACK =>
              led' = led /\ counter' = counter
        /\ reply' = Some(Cmd(ACK, <<>>)) =>
              LET code == command'[1].code
              IN  /\ code = LED_ON => led' = "high" /\ counter' = counter
                  /\ code = LED_OFF => led' = "low" /\ counter' = counter
                  /\ code = COUNTER_SET =>
                        counter' = command'[1].value[1] /\ led' = led
                  /\ code = COUNTER_INC => counter' = counter + 1 /\ led' = led
                  /\ code = COUNTER_DEC => counter' = counter - 1 /\ led' = led
      ]_vars

C11_Witness ==
    /\ command = Some(Cmd(COUNTER_SET, <<U8_MAX, U8_MAX>>))
    /\ reply = Some(Nack(INVALID_ARGUMENTS))
    /\ counter = 1
    /\ led = "high"

(* Scratch buffers that differ from the router's in one cell. *)
OtherBuffers ==
    {[buffer EXCEPT ![i] = x] : i \in {1, 2, TX_MAX_LEN}, x \in SetBytes}

(* C17: the reply and the resulting output line and counter of a call are  *)
(* the same whatever the scratch buffer held before the call, so whatever  *)
(* the earlier calls left in it.                                           *)
C17_BufferIrrelevant ==
    [][Routed =>
        \A b \in OtherBuffers :
            LET r == route(command'[1], Cx(led, counter), b)
            IN  r.reply = reply' /\ r.cx = Cx(led', counter')
      ]_vars

(* A counter-get after an earlier counter-get left another value in the    *)
(* buffer.                                                                 *)
C17_Witness ==
    /\ repeated
    /\ command = Some(Cmd(COUNTER_GET, <<>>))
    /\ reply = Some(Cmd(COUNTER_GET_REPLY, <<U8_MAX>>))
    /\ calls = 3

(* C18: every call with a device identifier returns exactly one reply. *)
C18_AlwaysReplies ==
    command # None /\ command[1].code \in DeviceCodes =>
        reply # None /\ Len(reply) = 1

C18_Witness ==
    /\ command = Some(Cmd(LED_OFF, <<0>>))
    /\ reply = Some(Ack)
    /\ led = "low"
    /\ calls = MaxCalls

(* C19: the output commands leave the counter unchanged, and the counter   *)
(* commands leave the output line unchanged, acknowledged or rejected.     *)
C19_OwnResourceOnly ==
    [][Routed =>
        /\ command'[1].code \in {LED_ON, LED_OFF} => counter' = counter
        /\ command'[1].code \in
              {COUNTER_GET, COUNTER_SET, COUNTER_INC, COUNTER_DEC} =>
                  led' = led
      ]_vars

C19_Witness ==
    /\ command = Some(Cmd(COUNTER_DEC, <<>>))
    /\ reply = Some(Nack(OUT_OF_BOUNDS))
    /\ led = "high"
    /\ repeated

(* ======================= properties of the tasks ======================= *)

(* C10: the router is only ever called on a fully assembled frame. No      *)
(* usart1 step, so no byte feed, takes place while ercp_process runs; a    *)
(* processing run starts on a complete frame; the command routed is that   *)
(* frame's; and the frame does not change while the run is in progress.    *)
C10_FullFrameOnly ==
    /\ [](pcP # "idle" => pcU = "idle")
    /\ [](pcP = "process" => rx = "complete" /\ frame # None)
    /\ [][Routed => rx = "complete" /\ command' = frame /\ pcU = "idle"]_vars
    /\ [][pcP = "process" => rx' = rx /\ frame' = frame]_vars

(* A byte arrived while the router was called on a complete frame. *)
C10_Witness ==
    /\ pcP = "reset"
    /\ rxne
    /\ rx = "complete"
    /\ command = frame
    /\ calls > 1

(* A step of the usart1 task. *)
Usart1Step == pcU # "idle" \/ pcU' # "idle"

(* C12: no step of usart1, the byte feed, the poll or the spawn, and no    *)
(* arrival of a byte changes the output line or the counter; they change   *)
(* only in the step of ercp_process that calls process().                  *)
C12_ResourcesOfProcessOnly ==
    /\ [][Usart1Step \/ rxne' # rxne => led' = led /\ counter' = counter]_vars
    /\ [][led' # led \/ counter' # counter =>
            pcP = "process" /\ pcP' = "reset" /\ pcU = "idle" /\ pcU' = "idle"
         ]_vars

(* usart1 has fed a byte that completed a frame while the line is asserted *)
(* and the counter is at its maximum.                                      *)
C12_Witness ==
    /\ pcU = "spawn"
    /\ led = "high"
    /\ counter = U8_MAX
    /\ calls = 2

(* C13: a run is requested only by usart1 at its spawn, reached only from  *)
(* the poll that follows the byte feed and only if the frame is complete;  *)
(* route() is called only in ercp_process while usart1 is not running, and *)
(* ercp_process starts only by taking a requested run, so a frame-ready    *)
(* observation of usart1 precedes every call of route().                   *)
C13_SpawnAfterCompleteFeed ==
    /\ [](pcU = "spawn" \/ spawned \/ pcP = "process" => rx = "complete")
    /\ [][pcU' = "poll" /\ pcU # "poll" => pcU = "handle_data" /\ ~rxne']_vars
    /\ [][pcU' = "spawn" /\ pcU # "spawn" =>
            pcU = "poll" /\ complete_frame_received(rx)]_vars
    /\ [][spawned' /\ ~spawned => pcU = "spawn" /\ pcU' = "idle"]_vars
    /\ [][pcP' = "process" /\ pcP # "process" =>
            spawned /\ ~spawned' /\ pcU = "idle"]_vars
    /\ [][Routed => pcP = "process" /\ pcU = "idle" /\ pcU' = "idle"]_vars

(* The first frame's command has been routed, a second frame is complete  *)
(* and its run is requested.                                               *)
C13_Witness ==
    /\ spawned
    /\ pcU = "idle"
    /\ pcP = "idle"
    /\ rx = "complete"
    /\ calls = 1

(* C14: usart1's byte feed and poll and ercp_process's process() call are  *)
(* never both in progress.                                                 *)
C14_MutualExclusion ==
    ~(pcU \in {"handle_data", "poll"} /\ pcP \in {"process", "reset"})

(* A byte waits at the UART while process() runs. *)
C14_Witness ==
    /\ pcP = "process"
    /\ rxne
    /\ pcU = "idle"
    /\ calls = 1

(* The pipeline is idle: no frame is kept, no run is queued or running. *)
PipelineIdle ==
    rx = "ready" /\ frame = None /\ ~spawned /\ pcP = "idle" /\ pcU = "idle"

(* C15: once a byte feed has completed a frame, a run of ercp_process      *)
(* follows in which route() is called on that frame, and the pipeline      *)
(* becomes idle again: it stays neither with a complete frame nor in a     *)
(* run (which holds a complete frame to its end) for ever.                 *)
C15_FrameProcessed ==
    /\ (rx = "complete") ~> (pcP = "reset" /\ command = frame)
    /\ (rx = "complete" \/ pcP # "idle") ~> PipelineIdle

(* The pipeline is idle after the last frame's command was routed. *)
C15_Witness ==
    /\ PipelineIdle
    /\ calls = MaxCalls
    /\ command = Some(Cmd(COUNTER_SET, <<U8_MAX>>))
    /\ counter = U8_MAX

(* C16: a byte feed that fails and a spawn on a full queue are discarded:  *)
(* usart1 goes on to its next step and returns, never to a halted state,   *)
(* the spawn is not repeated, the output line and the counter are          *)
(* unchanged, and a byte that arrives later is still fed.                  *)
C16_FailuresSwallowed ==
    /\ [](pcU \in {"idle", "handle_data", "poll", "spawn"})
    /\ [][pcU = "handle_data" /\ pcU' # pcU /\ dropped' = "feed" =>
            /\ pcU' = "poll"
            /\ led' = led /\ counter' = counter
            /\ spawned' = spawned
         ]_vars
    /\ [][pcU = "spawn" /\ pcU' # pcU /\ spawned =>
            /\ pcU' = "idle"
            /\ spawned'
            /\ dropped' = "spawn"
            /\ led' = led /\ counter' = counter
         ]_vars
    /\ (rxne /\ dropped # "none") ~> (pcU = "handle_data")

(* usart1 has returned from a spawn on a full queue and a later byte is    *)
(* being fed.                                                              *)
C16_Witness ==
    /\ dropped = "spawn"
    /\ pcU = "handle_data"
    /\ spawned
    /\ counter = 1

====
